---- MODULE Spec2Model ----
(***************************************************************************)
(* A model of unwrap's core (src/unwrap/core.py): the Metric accumulator,  *)
(* the Paragraph assembler and the Joiner boundary-detection engine.       *)
(*                                                                         *)
(* Text is modelled by TLA+ strings (Len, \o and SubSeq act on them as on  *)
(* sequences of characters).  Python's None is the empty tuple <<>> and a  *)
(* present line s is the one-element tuple <<s>>.                          *)
(*                                                                         *)
(* Real numbers are exact rationals <<numerator, denominator>> with a      *)
(* positive denominator; Metric.dev, a square root, is carried by its      *)
(* square (DevSq) and every comparison of the code against a dev is made   *)
(* on the squares.  Floating-point rounding is not modelled.               *)
(***************************************************************************)
EXTENDS Integers, Sequences, FiniteSets, TLC

VARIABLES
    lines,       \* Joiner.lines: the raw input lines
    _first,      \* Joiner._first: Metric of first-line lengths
    _middle,     \* Joiner._middle: Metric of middle-line lengths
    pc,          \* position of the running generator / caller
    paragraph,   \* __iter__'s local `paragraph` (the buffer)
    pos,         \* number of items taken from `iterator`
    line,        \* __iter__'s local `line`
    next_line,   \* __iter__'s local `next_line`
    remaining,   \* iterate(): passes of range(count) still to start
    call,        \* history: the operation last called on the Joiner
    snap,        \* history: the two Metrics when that operation was called
    out,         \* history: the paragraphs yielded by the current pass
    outLines,    \* history: for each yielded paragraph, the line indices added to it
    bufLines,    \* history: the line indices added to the buffer
    taken,       \* history: the line indices bound to `line` in the current pass
    log,         \* history: one entry per pass started, who drove it / how it ended
    bufId,       \* history: identity of the object `paragraph` is bound to (0: none)
    nextId,      \* history: identity the next Paragraph() of the pass will get
    outIds,      \* history: identities of the paragraphs yielded by the current pass
    asked,       \* history: the invocations of _is_last in the current pass
    passSnap,    \* history: the two Metrics when the current pass started
    iterations,  \* run(): args.iterations
    rpc,         \* run(): position in run ("none" outside the command line)
    written,     \* run(): the paragraphs written to the output file
    metric,      \* a stand-alone Metric (Metric specification)
    added,       \* history: the values given to metric's add, in call order
    para,        \* a stand-alone Paragraph (Paragraph specification)
    pieces       \* history: the lines given to para's add, in call order

jvars == <<lines, _first, _middle, pc, paragraph, pos, line, next_line,
           remaining, call, snap, out, outLines, bufLines, taken, log,
           bufId, nextId, outIds, asked, passSnap>>
mvars == <<metric, added>>
pvars == <<para, pieces>>
rvars == <<iterations, rpc, written>>
vars == <<jvars, mvars, pvars, rvars>>

(***************************************************************************)
(* Bounds of the model.                                                    *)
(***************************************************************************)
MaxLines == 3      \* longest enumerated input, in lines
MaxPasses == 2     \* passes started on one Joiner
MaxAdds == 3       \* add calls on the stand-alone Metric / Paragraph
MaxValue == 6      \* largest value given to the stand-alone Metric
MaxBelowZero == 1  \* how far below zero the values of --iterations go

(***************************************************************************)
(* Strings.                                                                *)
(***************************************************************************)
Whitespace == {" ", "\t"}

FirstChar(s) == SubSeq(s, 1, 1)
LastChar(s) == SubSeq(s, Len(s), Len(s))

RECURSIVE LStrip(_)
LStrip(s) ==
    IF Len(s) = 0 THEN s
    ELSE IF FirstChar(s) \in Whitespace THEN LStrip(SubSeq(s, 2, Len(s)))
    ELSE s

RECURSIVE RStrip(_)
RStrip(s) ==
    IF Len(s) = 0 THEN s
    ELSE IF LastChar(s) \in Whitespace THEN RStrip(SubSeq(s, 1, Len(s) - 1))
    ELSE s

\* str.strip()
Strip(s) == RStrip(LStrip(s))

\* str.endswith(suffix)
EndsWith(s, suffix) ==
    /\ Len(s) >= Len(suffix)
    /\ SubSeq(s, Len(s) - Len(suffix) + 1, Len(s)) = suffix

(***************************************************************************)
(* Exact rationals <<n, d>>, d > 0.                                        *)
(***************************************************************************)
RInt(i) == <<i, 1>>
RAdd(a, b) == <<a[1] * b[2] + b[1] * a[2], a[2] * b[2]>>
RSub(a, b) == <<a[1] * b[2] - b[1] * a[2], a[2] * b[2]>>
RMul(a, b) == <<a[1] * b[1], a[2] * b[2]>>
RHalf(a) == <<a[1], 2 * a[2]>>
REq(a, b) == a[1] * b[2] = b[1] * a[2]
RLt(a, b) == a[1] * b[2] < b[1] * a[2]
RMax(a, b) == IF RLt(a, b) THEN b ELSE a

RECURSIVE SumSeq(_)
SumSeq(s) == IF s = <<>> THEN 0 ELSE Head(s) + SumSeq(Tail(s))

(***************************************************************************)
(* Metric (core.py 10-39).                                                 *)
(***************************************************************************)
\* Metric.__init__
Metric_init == [count |-> 0, sum |-> 0, values |-> <<>>]

\* A plausible slip in Metric.add: the sample is rebuilt instead of extended.
Metric_add_ResetsSample(m, value) ==
    [count |-> m.count + 1, sum |-> m.sum + value, values |-> <<value>>]

\* A plausible slip in Metric.add: the count is not incremented.
Metric_add_KeepsCount(m, value) ==
    [count |-> m.count, sum |-> m.sum + value, values |-> Append(m.values, value)]

\* Metric.add
Metric_add(m, value) ==
    [count |-> m.count + 1, sum |-> m.sum + value, values |-> Append(m.values, value)]

\* Metric.avg: sum / count (true division), 0 for an empty Metric
Metric_avg(m) == IF m.count # 0 THEN <<m.sum, m.count>> ELSE RInt(0)

\* sum((value - mean) ** 2 for value in values), times mean's denominator squared
RECURSIVE SumSqDev(_, _)
SumSqDev(values, mean) ==
    IF values = <<>> THEN 0
    ELSE (Head(values) * mean[2] - mean[1]) * (Head(values) * mean[2] - mean[1])
         + SumSqDev(Tail(values), mean)

\* A plausible slip in Metric.dev: the population variance (divided by count).
Metric_devSq_Normalised(m) ==
    LET mean == Metric_avg(m)
    IN  <<SumSqDev(m.values, mean), mean[2] * mean[2] * (IF m.count # 0 THEN m.count ELSE 1)>>

\* Metric.dev, squared: dev = sqrt(Metric_devSq)
Metric_devSq(m) ==
    LET mean == Metric_avg(m)
    IN  <<SumSqDev(m.values, mean), mean[2] * mean[2]>>

(***************************************************************************)
(* Paragraph (core.py 42-82).                                              *)
(***************************************************************************)
\* Paragraph.__init__
Paragraph_init == [text |-> "", uncertain |-> FALSE]

\* Paragraph.empty
Paragraph_empty(p) == p.text = ""

\* A plausible slip in Paragraph.add: the hyphen test is lost.
Paragraph_add_NoHyphen(p, l) ==
    [p EXCEPT !.text = p.text \o (IF Paragraph_empty(p) THEN "" ELSE " ") \o l]

\* A plausible slip in Paragraph.add: the text is assigned, not extended.
Paragraph_add_Overwrites(p, l) == [p EXCEPT !.text = l]

\* Paragraph.add
Paragraph_add(p, l) ==
    LET separator == IF Paragraph_empty(p) THEN ""
                     ELSE IF EndsWith(p.text, "-") THEN ""
                     ELSE " "
    IN  [p EXCEPT !.text = p.text \o separator \o l]

(***************************************************************************)
(* Joiner (core.py 85-204).                                                *)
(***************************************************************************)
END_MARKS == <<".", "?", "!">>
POSSIBLE_END_MARKS == <<"...", ":", ".\"", ".'", "?\"", "?'", "!\"", "!'", ")", "]", "}">>

None == <<>>

\* `for mark in marks: if line.endswith(mark)` finds a mark
EndsWithAny(l, marks) == \E i \in 1..Len(marks) : EndsWith(l, marks[i])

\* A plausible slip: only None counts as "no next line", a blank one does not.
NotNextLine_OnlyNone(nl) == nl = None

\* `not next_line`: None or the empty string
NotNextLine(nl) == nl = None \/ nl[1] = ""

\* A plausible slip: the end of input is reported as an uncertain boundary.
NoNextLineResult_Uncertain == <<TRUE, FALSE>>

\* what _is_last returns when there is no next line
NoNextLineResult == <<TRUE, TRUE>>

\* A plausible slip: a line without any mark is taken for a last line.
NoMarkResult_Last == <<TRUE, TRUE>>

\* what _is_last returns when no mark matches
NoMarkResult == <<FALSE, TRUE>>

\* middle - first > 2 * max(self._first.dev, self._middle.dev),
\* decided on the squares: x > 2 * sqrt(a)  iff  x > 0 and x * x > 4 * a
MetricsUseful ==
    LET gap == RSub(Metric_avg(_middle), Metric_avg(_first))
        dev2 == RMax(Metric_devSq(_first), Metric_devSq(_middle))
    IN  /\ gap[1] > 0
        /\ RLt(RMul(RInt(4), dev2), RMul(gap, gap))

\* A plausible slip: the length of the next line is never looked at.
NextTooLong_Never(nl, middle_threshold) == FALSE

\* len(next_line) > middle_threshold
NextTooLong(nl, middle_threshold) == RLt(middle_threshold, RInt(Len(nl[1])))

\* A plausible slip: an end mark is always weighed against last_threshold.
MarkThreshold_AlwaysLast(is_first, last_threshold, middle_threshold) == last_threshold

\* threshold = last_threshold if is_first else middle_threshold
MarkThreshold(is_first, last_threshold, middle_threshold) ==
    IF is_first THEN last_threshold ELSE middle_threshold

\* A plausible slip: a mark is trusted whatever the length of the line.
Certain_Always(l, threshold) == TRUE

\* len(line) < threshold
Certain(l, threshold) == RLt(RInt(Len(l)), threshold)

\* Joiner._is_last(line, next_line, is_first) -> <<is_last, certain>>
Joiner_is_last(l, nl, is_first) ==
    IF NotNextLine(nl) THEN NoNextLineResult
    ELSE
        LET first == Metric_avg(_first)
            middle == Metric_avg(_middle)
            last_threshold == RSub(first, RSub(middle, first))
            middle_threshold == RHalf(RAdd(middle, first))
        IN  IF MetricsUseful
            THEN IF NextTooLong(nl, middle_threshold) THEN <<FALSE, TRUE>>
                 ELSE IF EndsWithAny(l, END_MARKS)
                      THEN <<TRUE, Certain(l, MarkThreshold(is_first, last_threshold,
                                                            middle_threshold))>>
                 ELSE IF EndsWithAny(l, POSSIBLE_END_MARKS)
                      THEN <<TRUE, Certain(l, last_threshold)>>
                 ELSE NoMarkResult
            ELSE IF EndsWithAny(l, END_MARKS \o POSSIBLE_END_MARKS)
                 THEN <<TRUE, Certain(l, last_threshold)>>
                 ELSE NoMarkResult

(***************************************************************************)
(* Inputs.                                                                 *)
(***************************************************************************)
\* raw lines the enumerated inputs are built from: a blank (whitespace-only)
\* line, a short line, a line with an end mark, a longer line ending with a
\* hyphen, and a padded line with a possible end mark
LineSet == {" ", "a", "ab.", "abc-", " e)\t"}

Hello == <<"hello", "", "world">>

Fox == <<"The quick brown fox jumps over the", "lazy dog.", "",
         "Next paragraph starts here and is", "a single short line.">>

EnumeratedInputs == UNION {[1..n -> LineSet] : n \in 0..MaxLines}

\* inputs whose line lengths make the Metrics useful (middle lines longer than
\* first lines) and then meet each kind of mark, as first and as later lines
Curated == {
    <<"a", "abc-", "ab.", "abc-">>,
    <<"a", "abc-", ".", "a">>,
    <<"a", "abc-", "a...", "a">>,
    <<"a", "abcdef-", "...", "a">>,
    <<"ab.", "abc-", "ab.", "a">>,
    <<"abcd", "abcde-", "x.", ".", "a">>,
    <<"abcd", "abcde-", "x.", ")", "a">>,
    <<"abcd", "abcde-", "x!", "e)", "ab?", "a">> }

Inputs == EnumeratedInputs \cup {Hello, Fox} \cup Curated

(***************************************************************************)
(* Joiner: construction, iterate and the generator __iter__.               *)
(*                                                                         *)
(* pc: "idle"     no generator is running                                  *)
(*     "start"    a generator was created and has not run yet              *)
(*     "loop"     at the head of the while loop, `line` is not None        *)
(*     "yield130", "yield132", "yield143"  suspended at that yield         *)
(*     "done"     the generator returned (StopIteration)                   *)
(*     "raised"   an exception escaped the generator                       *)
(***************************************************************************)
NoFrame ==
    /\ paragraph' = Paragraph_init
    /\ pos' = 0
    /\ line' = None
    /\ next_line' = None
    /\ bufLines' = <<>>
    /\ bufId' = 0

NoYields ==
    /\ out' = <<>>
    /\ outLines' = <<>>
    /\ taken' = <<>>
    /\ outIds' = <<>>
    /\ asked' = <<>>

\* Joiner.__init__
JoinerInit(input) ==
    /\ lines = input
    /\ _first = Metric_init
    /\ _middle = Metric_init
    /\ pc = "idle"
    /\ paragraph = Paragraph_init
    /\ pos = 0
    /\ line = None
    /\ next_line = None
    /\ remaining = 0
    /\ call = [op |-> "none", count |-> 0]
    /\ snap = <<Metric_init, Metric_init>>
    /\ out = <<>>
    /\ outLines = <<>>
    /\ bufLines = <<>>
    /\ taken = <<>>
    /\ log = <<>>
    /\ bufId = 0
    /\ nextId = 1
    /\ outIds = <<>>
    /\ asked = <<>>
    /\ passSnap = <<Metric_init, Metric_init>>

MetricIdle == metric = Metric_init /\ added = <<>>
ParagraphIdle == para = Paragraph_init /\ pieces = <<>>
RunIdle == iterations = 0 /\ rpc = "none" /\ written = <<>>

\* A plausible slip in iterate: one pass too many.
RangeLen_OneMore(count) == count + 1

\* len(range(count)): how many times iterate's outer loop runs
RangeLen(count) == IF count > 0 THEN count ELSE 0

\* Joiner.iterate(count), up to the creation of the first generator
Iterate(count) ==
    /\ pc = "idle"
    /\ Len(log) + count <= MaxPasses
    /\ call' = [op |-> "iterate", count |-> count]
    /\ snap' = <<_first, _middle>>
    /\ NoYields
    /\ IF RangeLen(count) > 0
       THEN /\ pc' = "start"
            /\ remaining' = RangeLen(count) - 1
            /\ log' = Append(log, "iterate")
       ELSE /\ pc' = "idle"
            /\ remaining' = 0
            /\ UNCHANGED log
    /\ UNCHANGED <<lines, _first, _middle, paragraph, pos, line, next_line, bufLines,
                   bufId, nextId, passSnap>>

\* iterate's loops: a pass is exhausted; start the next one or return
IterateNext ==
    /\ pc = "done"
    /\ call.op = "iterate"
    /\ NoFrame
    /\ IF remaining > 0
       THEN /\ pc' = "start"
            /\ remaining' = remaining - 1
            /\ log' = Append(log, "iterate")
       ELSE /\ pc' = "idle"
            /\ UNCHANGED <<remaining, log>>
    /\ UNCHANGED <<lines, _first, _middle, call, snap, out, outLines, taken,
                   nextId, outIds, asked, passSnap>>

\* a consumer starts a pass of its own: iter(joiner), as list(joiner) does
Iter ==
    /\ pc = "idle"
    /\ Len(log) < MaxPasses
    /\ call' = [op |-> "iter", count |-> 0]
    /\ snap' = <<_first, _middle>>
    /\ NoYields
    /\ pc' = "start"
    /\ log' = Append(log, "iter")
    /\ UNCHANGED <<lines, _first, _middle, paragraph, pos, line, next_line,
                   bufLines, remaining, bufId, nextId, passSnap>>

\* the consumer has seen the generator exhausted
IterReturn ==
    /\ pc = "done"
    /\ call.op = "iter"
    /\ NoFrame
    /\ pc' = "idle"
    /\ UNCHANGED <<lines, _first, _middle, remaining, call, snap, out, outLines,
                   taken, log, nextId, outIds, asked, passSnap>>

\* the consumer drops a suspended generator without exhausting it
Abandon ==
    /\ pc \in {"start", "yield130", "yield132", "yield143"}
    /\ call.op = "iter"
    /\ NoFrame
    /\ pc' = "idle"
    /\ log' = [log EXCEPT ![Len(log)] = "partial"]
    /\ UNCHANGED <<lines, _first, _middle, remaining, call, snap, out, outLines, taken,
                   nextId, outIds, asked, passSnap>>

\* A plausible slip in __iter__: the guard for an empty input is missing.
LinesFalsy_Never == FALSE

\* `not self.lines`
LinesFalsy == Len(lines) = 0

\* next(iterator) after i items were taken: <<item>>, or None for StopIteration
NextItem(i) == IF i < Len(lines) THEN <<lines[i + 1]>> ELSE None

\* __iter__, from its first line to the head of the while loop
GenStart ==
    /\ pc = "start"
    /\ NoYields
    /\ bufLines' = <<>>
    /\ next_line' = None
    /\ passSnap' = <<_first, _middle>>
    /\ IF LinesFalsy
       THEN /\ pc' = "done"
            /\ nextId' = 1
            /\ UNCHANGED <<paragraph, pos, line, bufId>>
       ELSE /\ paragraph' = Paragraph_init
            /\ bufId' = 1
            /\ nextId' = 2
            /\ IF NextItem(0) = None
               THEN /\ pc' = "raised"
                    /\ UNCHANGED <<pos, line>>
               ELSE /\ pos' = 1
                    /\ line' = <<Strip(NextItem(0)[1])>>
                    /\ pc' = "loop"
    /\ UNCHANGED <<lines, _first, _middle, remaining, call, snap, log>>

\* `line = next_line` and the test of the while loop
Advance ==
    /\ line' = next_line'
    /\ pc' = IF next_line' = None THEN "done" ELSE "loop"

\* A plausible slip: the test for a blank line is lost.
NotLine_Never(l) == FALSE

\* `not line`: the trimmed line is empty
NotLine(l) == l = ""

\* A plausible slip: the first-line and the middle-line Metric are exchanged.
Record_Swapped(is_first, n) ==
    IF is_first
    THEN /\ _middle' = Metric_add(_middle, n)
         /\ UNCHANGED _first
    ELSE /\ _first' = Metric_add(_first, n)
         /\ UNCHANGED _middle

\* lines 146-149: the length of a line that is not last goes into one Metric
Record(is_first, n) ==
    IF is_first
    THEN /\ _first' = Metric_add(_first, n)
         /\ UNCHANGED _middle
    ELSE /\ _middle' = Metric_add(_middle, n)
         /\ UNCHANGED _first

\* A plausible slip: the yielded object is emptied and used again.
NewBuffer_Reused ==
    /\ paragraph' = Paragraph_init
    /\ bufLines' = <<>>
    /\ bufId' = bufId

\* `paragraph = Paragraph()`: the buffer is bound to a new object
NewBuffer ==
    /\ paragraph' = Paragraph_init
    /\ bufLines' = <<>>
    /\ bufId' = nextId

\* one turn of the while loop, up to its first yield or to its end
LoopBody ==
    /\ pc = "loop"
    /\ LET item == NextItem(pos)
           is_first == Paragraph_empty(paragraph)
           joined == Paragraph_add(paragraph, line[1])
       IN  /\ next_line' = IF item = None THEN None ELSE <<Strip(item[1])>>
           /\ pos' = IF item = None THEN pos ELSE pos + 1
           /\ taken' = Append(taken, pos)
           /\ IF NotLine(line[1])
              THEN /\ IF Paragraph_empty(paragraph)
                      THEN /\ out' = Append(out, paragraph)
                           /\ outLines' = Append(outLines, bufLines)
                           /\ outIds' = Append(outIds, bufId)
                           /\ pc' = "yield130"
                           /\ UNCHANGED nextId
                      ELSE /\ out' = Append(out, Paragraph_init)
                           /\ outLines' = Append(outLines, <<>>)
                           /\ outIds' = Append(outIds, nextId)
                           /\ nextId' = nextId + 1
                           /\ pc' = "yield132"
                   /\ UNCHANGED <<paragraph, bufLines, line, _first, _middle, asked>>
              ELSE LET r == Joiner_is_last(line[1], next_line', is_first)
                   IN  /\ bufLines' = Append(bufLines, pos)
                       /\ asked' = Append(asked, [line |-> line[1],
                                                  next_line |-> next_line',
                                                  is_first |-> is_first,
                                                  result |-> r])
                       /\ UNCHANGED nextId
                       /\ IF r[1]
                          THEN /\ paragraph' = [joined EXCEPT !.uncertain = ~r[2]]
                               /\ out' = Append(out, paragraph')
                               /\ outLines' = Append(outLines, bufLines')
                               /\ outIds' = Append(outIds, bufId)
                               /\ pc' = "yield143"
                               /\ UNCHANGED <<line, _first, _middle>>
                          ELSE /\ paragraph' = joined
                               /\ Record(is_first, Len(line[1]))
                               /\ Advance
                               /\ UNCHANGED <<out, outLines, outIds>>
    /\ UNCHANGED <<lines, remaining, call, snap, log, bufId, passSnap>>

\* resumed at line 130: `paragraph = Paragraph()`, then `yield Paragraph()`
Resume130 ==
    /\ pc = "yield130"
    /\ NewBuffer
    /\ out' = Append(out, Paragraph_init)
    /\ outLines' = Append(outLines, <<>>)
    /\ outIds' = Append(outIds, nextId + 1)
    /\ nextId' = nextId + 2
    /\ pc' = "yield132"
    /\ UNCHANGED <<lines, _first, _middle, pos, line, next_line, remaining, call,
                   snap, taken, log, asked, passSnap>>

\* resumed at line 132: on to the end of the loop body
Resume132 ==
    /\ pc = "yield132"
    /\ UNCHANGED next_line
    /\ Advance
    /\ UNCHANGED <<lines, _first, _middle, paragraph, pos, remaining, call, snap,
                   out, outLines, bufLines, taken, log, bufId, nextId, outIds,
                   asked, passSnap>>

\* resumed at line 143: `paragraph = Paragraph()`, on to the end of the loop body
Resume143 ==
    /\ pc = "yield143"
    /\ NewBuffer
    /\ nextId' = nextId + 1
    /\ UNCHANGED next_line
    /\ Advance
    /\ UNCHANGED <<lines, _first, _middle, pos, remaining, call, snap, out,
                   outLines, taken, log, outIds, asked, passSnap>>

Init ==
    /\ \E input \in Inputs : JoinerInit(input)
    /\ MetricIdle
    /\ ParagraphIdle
    /\ RunIdle

Next ==
    \/ (\E count \in 0..MaxPasses : Iterate(count)) /\ UNCHANGED <<mvars, pvars, rvars>>
    \/ IterateNext /\ UNCHANGED <<mvars, pvars, rvars>>
    \/ Iter /\ UNCHANGED <<mvars, pvars, rvars>>
    \/ IterReturn /\ UNCHANGED <<mvars, pvars, rvars>>
    \/ Abandon /\ UNCHANGED <<mvars, pvars, rvars>>
    \/ GenStart /\ UNCHANGED <<mvars, pvars, rvars>>
    \/ LoopBody /\ UNCHANGED <<mvars, pvars, rvars>>
    \/ Resume130 /\ UNCHANGED <<mvars, pvars, rvars>>
    \/ Resume132 /\ UNCHANGED <<mvars, pvars, rvars>>
    \/ Resume143 /\ UNCHANGED <<mvars, pvars, rvars>>

Spec == Init /\ [][Next]_vars

(***************************************************************************)
(* The Metric alone: any sequence of add calls on a fresh Metric.          *)
(***************************************************************************)
MetricAddCall(value) ==
    /\ Len(added) < MaxAdds
    /\ metric' = Metric_add(metric, value)
    /\ added' = Append(added, value)
    /\ UNCHANGED <<jvars, pvars, rvars>>

MetricInitState ==
    /\ JoinerInit(<<>>)
    /\ MetricIdle
    /\ ParagraphIdle
    /\ RunIdle

MetricNext == \E value \in 0..MaxValue : MetricAddCall(value)

MetricSpec == MetricInitState /\ [][MetricNext]_vars

(***************************************************************************)
(* The Paragraph alone: any sequence of add calls on a fresh Paragraph.    *)
(***************************************************************************)
Pieces == {"", "-", "a", "b c", "inter-", "national", "hello", "world"}

ParagraphAddCall(l) ==
    /\ Len(pieces) < MaxAdds
    /\ para' = Paragraph_add(para, l)
    /\ pieces' = Append(pieces, l)
    /\ UNCHANGED <<jvars, mvars, rvars>>

ParagraphInitState ==
    /\ JoinerInit(<<>>)
    /\ MetricIdle
    /\ ParagraphIdle
    /\ RunIdle

ParagraphNext == \E l \in Pieces : ParagraphAddCall(l)

ParagraphSpec == ParagraphInitState /\ [][ParagraphNext]_vars

(***************************************************************************)
(* Vocabulary of the claims.                                               *)
(***************************************************************************)
\* the texts of a sequence of paragraphs
Texts(ps) == [i \in 1..Len(ps) |-> ps[i].text]

\* the trimmed lines of the input
Trimmed == [i \in 1..Len(lines) |-> Strip(lines[i])]

IsBlank(i) == Trimmed[i] = ""

BlankCount == Cardinality({i \in 1..Len(lines) : IsBlank(i)})

EmptyYields == Cardinality({k \in 1..Len(out) : out[k].text = ""})

\* the generator of the current pass has been exhausted
PassDone == pc = "done"

\* the input is not empty and none of its lines is blank
NoBlankInput == Len(lines) > 0 /\ \A i \in 1..Len(lines) : ~IsBlank(i)

\* the append rule as the specification words it
JoinRule(text, l) ==
    IF text = "" THEN l
    ELSE IF LastChar(text) = "-" THEN text \o l
    ELSE text \o " " \o l

\* the append rule folded over the trimmed lines of the given indices
RECURSIVE JoinLines(_)
JoinLines(idx) ==
    IF idx = <<>> THEN ""
    ELSE JoinRule(JoinLines(SubSeq(idx, 1, Len(idx) - 1)), Trimmed[idx[Len(idx)]])

RECURSIVE Flatten(_)
Flatten(ss) == IF ss = <<>> THEN <<>> ELSE Head(ss) \o Flatten(Tail(ss))

\* the indices of the non-blank lines, in input order
RECURSIVE NonBlankUpTo(_)
NonBlankUpTo(n) ==
    IF n = 0 THEN <<>>
    ELSE IF IsBlank(n) THEN NonBlankUpTo(n - 1)
    ELSE Append(NonBlankUpTo(n - 1), n)

Contiguous(idx) == \A j \in 1..(Len(idx) - 1) : idx[j + 1] = idx[j] + 1

IsPrefix(s, t) == Len(s) <= Len(t) /\ SubSeq(t, 1, Len(s)) = s

(***************************************************************************)
(* C1.  In one pass each blank (empty after trimming) input line           *)
(* contributes exactly one emitted empty Paragraph; for lines [x, "", y]   *)
(* with x and y non-blank the pass emits exactly the texts [x, "", y].     *)
(* The code emits two empty paragraphs for a blank line: the empty buffer  *)
(* (line 130) and a fresh Paragraph (line 132).                            *)
(***************************************************************************)
C1_BlankLineOnce ==
    PassDone =>
        /\ EmptyYields = BlankCount
        /\ (Len(lines) = 3 /\ ~IsBlank(1) /\ IsBlank(2) /\ ~IsBlank(3))
              => Texts(out) = <<Trimmed[1], "", Trimmed[3]>>

(***************************************************************************)
(* C2.  For a non-empty input without blank lines, whatever the metrics    *)
(* earlier passes left, the last paragraph a pass emits is certain.        *)
(***************************************************************************)
C2_LastParagraphCertain ==
    (PassDone /\ NoBlankInput) =>
        /\ Len(out) > 0
        /\ out[Len(out)].uncertain = FALSE

\* a second pass over a blank-free input that emitted an uncertain paragraph
\* and whose final line ends with a mark
C2_Witness ==
    /\ PassDone
    /\ NoBlankInput
    /\ Len(log) = 2
    /\ _first.count > 0
    /\ EndsWithAny(Trimmed[Len(lines)], END_MARKS \o POSSIBLE_END_MARKS)
    /\ \E k \in 1..(Len(out) - 1) : out[k].uncertain
    /\ out[Len(out)].uncertain = FALSE

(***************************************************************************)
(* C3.  Every pass scans the input from its first line and loses no text:  *)
(* the buffer is empty whenever a blank line or the end of input is        *)
(* reached, every non-blank line is appended to exactly one paragraph, in  *)
(* input order, the lines of a paragraph are contiguous, and a paragraph's *)
(* text is its lines joined by the append rule.                            *)
(***************************************************************************)
C3_NoTextLost ==
    /\ (pc = "loop" /\ line[1] = "") => Paragraph_empty(paragraph)
    /\ taken = [i \in 1..Len(taken) |-> i]
    /\ pc = "loop" => line = <<Trimmed[Len(taken) + 1]>>
    /\ PassDone =>
          /\ Paragraph_empty(paragraph)
          /\ Flatten(outLines) = NonBlankUpTo(Len(lines))
          /\ \A k \in 1..Len(out) :
                /\ Contiguous(outLines[k])
                /\ out[k].text = JoinLines(outLines[k])
                /\ (out[k].text = "") = (outLines[k] = <<>>)

\* a later pass, with metrics recorded, that joined lines and met a blank line
C3_Witness ==
    /\ PassDone
    /\ Len(log) = 2
    /\ _first.count > 1
    /\ BlankCount > 0
    /\ \E k \in 1..Len(out) : Len(outLines[k]) >= 2

(***************************************************************************)
(* C4.  Paragraph.add: an empty paragraph takes the line as its text; a    *)
(* text ending with "-" takes the line with no separator; any other text   *)
(* takes one space and the line.  "hello" then "world" gives               *)
(* "hello world".  The hyphen itself is kept: "inter-" then "national"     *)
(* gives "inter-national".                                                 *)
(***************************************************************************)
C4_AppendRule ==
    /\ [][pieces' # pieces =>
            para'.text = JoinRule(para.text, pieces'[Len(pieces')])]_vars
    /\ [](pieces = <<"inter-", "national">> => para.text = "inter-national")
    /\ [](pieces = <<"hello", "world">> => para.text = "hello world")

C4_Witness ==
    /\ Len(pieces) = 3
    /\ pieces[1] = "inter-"
    /\ pieces[2] = "national"
    /\ para.text = "inter-national" \o " " \o pieces[3]

\* the text the append rule gives for a sequence of pieces
RECURSIVE JoinPieces(_)
JoinPieces(ps) ==
    IF ps = <<>> THEN ""
    ELSE JoinRule(JoinPieces(SubSeq(ps, 1, Len(ps) - 1)), ps[Len(ps)])

\* C4 as first stated: the append rule, with "inter-" then "national"
\* giving "international" and "hello" then "world" giving "hello world".
C4_AsStated ==
    /\ para.text = JoinPieces(pieces)
    /\ pieces = <<"inter-", "national">> => para.text = "international"
    /\ pieces = <<"hello", "world">> => para.text = "hello world"

(***************************************************************************)
(* C5.  iterate(0) is a no-op: it changes neither Metric and emits         *)
(* nothing, for every input and every prior metric state.                  *)
(***************************************************************************)
C5_IterateZeroNoOp ==
    (call.op = "iterate" /\ call.count = 0) =>
        /\ _first = snap[1]
        /\ _middle = snap[2]
        /\ out = <<>>
        /\ pc = "idle"

\* iterate(0) on a Joiner whose Metrics both hold values
C5_Witness ==
    /\ call.op = "iterate"
    /\ call.count = 0
    /\ _first.count > 0
    /\ _middle.count > 0

(***************************************************************************)
(* C6.  Over any sequence of passes (iterate(k), full or abandoned         *)
(* iterations) neither Metric's count decreases and no stored value is     *)
(* removed: the sample before a step is a prefix of the sample after it.   *)
(***************************************************************************)
Grows(m, n) ==
    /\ m.count <= n.count
    /\ IsPrefix(m.values, n.values)

C6_MetricsOnlyGrow == [][Grows(_first, _first') /\ Grows(_middle, _middle')]_vars

\* an abandoned iteration followed by iterate(1), both having recorded values
C6_Witness ==
    /\ log = <<"partial", "iterate">>
    /\ pc = "idle"
    /\ _first.count >= 2
    /\ _middle.count >= 2

(***************************************************************************)
(* C7.  After any sequence of add calls on a fresh Metric: count is the    *)
(* number of values added, sum their sum, the sample the values in call    *)
(* order, and avg is sum / count, or 0 when count = 0.                     *)
(***************************************************************************)
C7_MetricTotals ==
    /\ metric.count = Len(added)
    /\ metric.sum = SumSeq(added)
    /\ metric.values = added
    /\ IF Len(added) > 0
       THEN REq(Metric_avg(metric), <<SumSeq(added), Len(added)>>)
       ELSE Metric_avg(metric) = RInt(0)

C7_Witness ==
    /\ added = <<1, 0, 4>>
    /\ metric.count = 3
    /\ metric.sum = 5

(***************************************************************************)
(* C8.  Metric.dev is the square root of the sum of squared deviations     *)
(* from avg, not divided by count: after add(2), add(4), add(6), avg = 4   *)
(* and dev = sqrt(8); on an empty Metric dev = 0.  (dev >= 0 is carried by *)
(* its square; sum (v - avg)^2 = sum v^2 - count * avg^2.)                 *)
(***************************************************************************)
RECURSIVE SumSquares(_)
SumSquares(s) == IF s = <<>> THEN 0 ELSE Head(s) * Head(s) + SumSquares(Tail(s))

GeneratorStep ==
    /\ GenStart \/ LoopBody \/ Resume130 \/ Resume132 \/ Resume143
    /\ UNCHANGED <<mvars, pvars, rvars>>

FairSpec == Spec /\ WF_vars(GeneratorStep)

Abandoned == pc = "idle" /\ Len(log) > 0 /\ log[Len(log)] = "partial"

C9_PassTerminates ==
    /\ [](pc # "raised")
    /\ [](PassDone => taken = [i \in 1..Len(lines) |-> i])
    /\ []((pc # "idle" /\ Len(lines) = 0) =>
              /\ out = <<>>
              /\ _first = snap[1]
              /\ _middle = snap[2])
    /\ (pc = "start") ~> (PassDone \/ Abandoned)

\* an exhausted later pass over an input of several lines, blank ones among them
C9_Witness ==
    /\ PassDone
    /\ Len(log) = 2
    /\ Len(lines) >= 3
    /\ BlankCount > 0
    /\ BlankCount < Len(lines)
    /\ Len(taken) = Len(lines)

(***************************************************************************)
(* C10.  For the five-line input Fox, after iterate(1) the final pass      *)
(* merges the first two lines into one paragraph ending at "lazy dog.",    *)
(* keeps the blank line as empty paragraphs between the two texts, merges  *)
(* the last two lines into a second paragraph and marks the final          *)
(* paragraph certain.                                                      *)
(***************************************************************************)
FoxFinalPass ==
    /\ lines = Fox
    /\ log = <<"iterate", "iter">>
    /\ PassDone

C10_FoxTwoIterations ==
    FoxFinalPass =>
        /\ Len(out) >= 3
        /\ out[1].text = "The quick brown fox jumps over the lazy dog."
        /\ outLines[1] = <<1, 2>>
        /\ \A k \in 2..(Len(out) - 1) : out[k].text = ""
        /\ out[Len(out)].text = "Next paragraph starts here and is a single short line."
        /\ outLines[Len(out)] = <<4, 5>>
        /\ out[Len(out)].uncertain = FALSE

C10_Witness ==
    /\ FoxFinalPass
    /\ _first.values = <<34, 33, 34, 33>>
    /\ EndsWith(out[1].text, "lazy dog.")

(***************************************************************************)
(* C11.  A Paragraph the pass has emitted is never changed by the engine   *)
(* again: while the buffer is still bound to an emitted object (the        *)
(* generator is suspended at the yield) its text and flag stay as emitted, *)
(* the next thing the engine does is bind the buffer to a new object, the  *)
(* emitted paragraphs of a pass are pairwise distinct objects, and         *)
(* whenever the loop runs the buffer is none of them.                      *)
(***************************************************************************)
Emitted(id) == \E k \in 1..Len(outIds) : outIds[k] = id

C11_EmittedNeverMutated ==
    /\ [][(Emitted(bufId) /\ bufId' = bufId) => paragraph' = paragraph]_vars
    /\ [](\A j, k \in 1..Len(outIds) : j # k => outIds[j] # outIds[k])
    /\ [](pc = "loop" => ~Emitted(bufId))
    /\ [](Len(outIds) = Len(out))

\* the loop runs on a new buffer after a paragraph of text and the two
\* paragraphs of a blank line were emitted
C11_Witness ==
    /\ pc = "loop"
    /\ Len(outIds) >= 3
    /\ out[1].text # ""
    /\ paragraph.text # ""
    /\ ~Emitted(bufId)

(***************************************************************************)
(* C12.  Within a pass the trimmed length of a line is recorded exactly    *)
(* when the line is non-blank and classified not last: into the first-line *)
(* Metric if the buffer was empty before the line was appended, otherwise  *)
(* into the middle-line Metric, never into both; blank lines and lines     *)
(* that close a paragraph are not recorded, and nothing else records.      *)
(* Hence over a full pass first.count + middle.count grows by the number   *)
(* of non-blank lines minus the number of non-empty paragraphs emitted,    *)
(* and first.count grows by the number of paragraphs of two or more lines. *)
(***************************************************************************)
Recorded(m, n, v) == n.count = m.count + 1 /\ n.values = Append(m.values, v)

ClassifiedLast == asked'[Len(asked')].result[1]

C12_RecordingStep ==
    IF pc = "loop" /\ pc' # "loop" /\ pc' # "done"
    THEN _first' = _first /\ _middle' = _middle
    ELSE IF pc = "loop"
    THEN /\ ~IsBlank(pos)
         /\ Len(asked') = Len(asked) + 1
         /\ ~ClassifiedLast
         /\ IF Paragraph_empty(paragraph)
            THEN Recorded(_first, _first', Len(Trimmed[pos])) /\ _middle' = _middle
            ELSE Recorded(_middle, _middle', Len(Trimmed[pos])) /\ _first' = _first
    ELSE _first' = _first /\ _middle' = _middle

C12_RecordedLines ==
    /\ [][C12_RecordingStep]_vars
    /\ [][(pc = "loop" /\ ~IsBlank(pos) /\ ~ClassifiedLast) => pc' \in {"loop", "done"}]_vars
    /\ [](PassDone =>
            /\ (_first.count - passSnap[1].count) + (_middle.count - passSnap[2].count)
                  = Len(NonBlankUpTo(Len(lines)))
                    - Cardinality({k \in 1..Len(out) : out[k].text # ""})
            /\ _first.count - passSnap[1].count
                  = Cardinality({k \in 1..Len(out) : Len(outLines[k]) >= 2}))

\* a second pass that recorded first and middle lines, met a blank line and
\* closed more than one paragraph of text
C12_Witness ==
    /\ PassDone
    /\ Len(log) = 2
    /\ passSnap[1].count > 0
    /\ _first.count > passSnap[1].count
    /\ _middle.count > passSnap[2].count
    /\ Cardinality({k \in 1..Len(out) : out[k].text # ""}) >= 2

(***************************************************************************)
(* C13.  During any pass _is_last is never invoked with an empty trimmed   *)
(* current line, because blank lines are handled before classification:    *)
(* it is asked once for each non-blank line and for nothing else.  Every   *)
(* invocation returns a pair of booleans, and the pair is (True, True)     *)
(* whenever there is no next line.                                         *)
(***************************************************************************)
C13_ClassifierTotal ==
    /\ \A k \in 1..Len(asked) :
          /\ asked[k].line # ""
          /\ asked[k].result \in BOOLEAN \X BOOLEAN
          /\ asked[k].next_line = None => asked[k].result = <<TRUE, TRUE>>
    /\ Len(asked) = Len(NonBlankUpTo(Len(taken)))
    /\ PassDone => Len(asked) = Len(NonBlankUpTo(Len(lines)))

\* a finished pass over an input with a blank line between two lines of text,
\* the last of which had no next line
C13_Witness ==
    /\ PassDone
    /\ BlankCount >= 1
    /\ Len(asked) >= 2
    /\ asked[Len(asked)].next_line = None
    /\ \E k \in 1..Len(asked) : asked[k].next_line = <<"">>

(***************************************************************************)
(* C14.  When a next line exists, middle.avg - first.avg exceeds twice the *)
(* larger deviation and len(next_line) > (middle.avg + first.avg) / 2,     *)
(* _is_last returns (False, True) whatever the current line ends with: the *)
(* line, even one ending in ".", "?" or "!", does not close its paragraph  *)
(* and its length is recorded in a Metric.                                 *)
(***************************************************************************)
\* middle.avg - first.avg > 2 * max(first.dev, middle.dev), on the squares
GapExceedsDeviations ==
    LET gap == RSub(Metric_avg(_middle), Metric_avg(_first))
    IN  /\ gap[1] > 0
        /\ RLt(RMul(RInt(4), Metric_devSq(_first)), RMul(gap, gap))
        /\ RLt(RMul(RInt(4), Metric_devSq(_middle)), RMul(gap, gap))

\* the loop is about to classify line number pos, a non-blank line that has a
\* non-blank next line (the loop peeks at it before it calls _is_last)
Classifying ==
    /\ pc = "loop"
    /\ line = <<Trimmed[pos]>> /\ ~IsBlank(pos)
    /\ pos < Len(lines) /\ ~IsBlank(pos + 1)

NextLen == RInt(Len(Trimmed[pos + 1]))

Yields == {"yield130", "yield132", "yield143"}

C14_NextLineTooLong ==
    [][(/\ Classifying
        /\ GapExceedsDeviations
        /\ RLt(RHalf(RAdd(Metric_avg(_middle), Metric_avg(_first))), NextLen))
       => /\ Len(asked') = Len(asked) + 1
          /\ asked'[Len(asked')].line = line[1]
          /\ asked'[Len(asked')].next_line = <<Trimmed[pos + 1]>>
          /\ asked'[Len(asked')].result = <<FALSE, TRUE>>
          /\ pc' \notin Yields
          /\ \/ Recorded(_first, _first', Len(line[1])) /\ _middle' = _middle
             \/ Recorded(_middle, _middle', Len(line[1])) /\ _first' = _first]_vars

\* a line ending with an end mark was classified not last before a next line
\* of text, which only the too-long next line can bring about
C14_Witness ==
    \E k \in 1..Len(asked) :
        /\ EndsWithAny(asked[k].line, END_MARKS)
        /\ asked[k].next_line # None /\ asked[k].next_line[1] # ""
        /\ asked[k].result = <<FALSE, TRUE>>
        /\ Len(asked) > k

(***************************************************************************)
(* C15.  In the informative branch of _is_last (the gap condition holds    *)
(* and len(next_line) <= middle_threshold) END_MARKS are checked before    *)
(* POSSIBLE_END_MARKS and the first match decides: a line ending with ".", *)
(* "?" or "!" (so also one ending with "...") returns                      *)
(* (True, len(line) < last_threshold) when is_first and                    *)
(* (True, len(line) < middle_threshold) otherwise; a line matching no      *)
(* END_MARK but ending with a POSSIBLE_END_MARK returns                    *)
(* (True, len(line) < last_threshold); last_threshold is                   *)
(* first.avg - (middle.avg - first.avg) and middle_threshold is            *)
(* (middle.avg + first.avg) / 2.  The paragraph is closed with             *)
(* uncertain = not certain.                                                *)
(***************************************************************************)
ClaimLastThreshold ==
    RSub(Metric_avg(_first), RSub(Metric_avg(_middle), Metric_avg(_first)))

ClaimMiddleThreshold == RHalf(RAdd(Metric_avg(_middle), Metric_avg(_first)))

EndsWithEndMark(l) == EndsWith(l, ".") \/ EndsWith(l, "?") \/ EndsWith(l, "!")

LastAsked == asked'[Len(asked')]

C15_InformativeMarks ==
    [][(/\ Classifying
        /\ GapExceedsDeviations
        /\ ~RLt(ClaimMiddleThreshold, NextLen))
       => LET l == Trimmed[pos]
              len == RInt(Len(l))
              is_first == Paragraph_empty(paragraph)
          IN  /\ Len(asked') = Len(asked) + 1
              /\ LastAsked.line = l
              /\ LastAsked.is_first = is_first
              /\ EndsWith(l, "...") => EndsWithEndMark(l)
              /\ EndsWithEndMark(l) =>
                    LastAsked.result =
                        <<TRUE, RLt(len, IF is_first THEN ClaimLastThreshold
                                                     ELSE ClaimMiddleThreshold)>>
              /\ (~EndsWithEndMark(l) /\ EndsWithAny(l, POSSIBLE_END_MARKS)) =>
                    LastAsked.result = <<TRUE, RLt(len, ClaimLastThreshold)>>
              /\ LastAsked.result[1] =>
                    /\ pc' = "yield143"
                    /\ out'[Len(out')].uncertain = ~LastAsked.result[2]]_vars

\* the informative branch has just closed a paragraph on a line ending with
\* "..." that was not the paragraph's first: certain, because END_MARKS decided
\* against middle_threshold (against last_threshold it would be uncertain)
C15_Witness ==
    /\ pc = "yield143"
    /\ GapExceedsDeviations
    /\ Len(asked) >= 1
    /\ LET a == asked[Len(asked)]
       IN  /\ EndsWith(a.line, "...")
           /\ ~a.is_first
           /\ a.next_line # None /\ a.next_line[1] # ""
           /\ ~RLt(ClaimMiddleThreshold, RInt(Len(a.next_line[1])))
           /\ a.result = <<TRUE, TRUE>>
           /\ ~RLt(RInt(Len(a.line)), ClaimLastThreshold)
           /\ ~out[Len(out)].uncertain

(***************************************************************************)
(* C16.  In every pass and every metric state a non-blank line that ends   *)
(* with none of the END_MARKS or POSSIBLE_END_MARKS and is followed by a   *)
(* non-blank line is classified (False, True) and does not close a         *)
(* paragraph: the final line of every emitted non-empty paragraph ends     *)
(* with one of the marks or is immediately followed by a blank line or by  *)
(* the end of the input.                                                   *)
(***************************************************************************)
AnyMark(l) == EndsWithAny(l, END_MARKS \o POSSIBLE_END_MARKS)

FinalLine(k) == outLines[k][Len(outLines[k])]

C16_NoMarkNeverCloses ==
    /\ [][(Classifying /\ ~AnyMark(Trimmed[pos]))
          => /\ Len(asked') = Len(asked) + 1
             /\ LastAsked.line = Trimmed[pos]
             /\ LastAsked.result = <<FALSE, TRUE>>
             /\ pc' \notin Yields
             /\ out' = out]_vars
    /\ [](\A k \in 1..Len(out) :
            out[k].text # "" =>
                /\ outLines[k] # <<>>
                /\ \/ AnyMark(Trimmed[FinalLine(k)])
                   \/ FinalLine(k) = Len(lines)
                   \/ IsBlank(FinalLine(k) + 1))

\* a second pass, under informative metrics, has closed a paragraph on a line
\* with a mark after keeping a line without one inside it
C16_Witness ==
    /\ Len(log) = 2
    /\ GapExceedsDeviations
    /\ passSnap[1].count > 0 /\ passSnap[2].count > 0
    /\ \E k \in 1..Len(out) :
          /\ Len(outLines[k]) >= 2
          /\ ~AnyMark(Trimmed[outLines[k][1]])
          /\ AnyMark(Trimmed[FinalLine(k)])
          /\ FinalLine(k) < Len(lines)
          /\ ~IsBlank(FinalLine(k) + 1)

(***************************************************************************)
(* C17.  Every emitted Paragraph with uncertain = true is non-empty, its   *)
(* final line ends with one of the END_MARKS or POSSIBLE_END_MARKS, and    *)
(* that line is immediately followed by a non-blank line.  Equivalently,   *)
(* empty paragraphs and paragraphs closed by a blank next line (which      *)
(* _is_last treats like no next line) or by the end of the input are       *)
(* emitted with uncertain = false.                                         *)
(***************************************************************************)
ClosedByGap(k) ==
    \/ FinalLine(k) = Len(lines)
    \/ IsBlank(FinalLine(k) + 1)

C17_UncertainOnlyAtMarks ==
    /\ \A k \in 1..Len(out) :
          /\ out[k].uncertain =>
                /\ out[k].text # ""
                /\ outLines[k] # <<>>
                /\ AnyMark(Trimmed[FinalLine(k)])
                /\ ~ClosedByGap(k)
          /\ (out[k].text = "" \/ outLines[k] = <<>>) => ~out[k].uncertain
          /\ (outLines[k] # <<>> /\ ClosedByGap(k)) => ~out[k].uncertain
    /\ \A j \in 1..Len(asked) :
          (asked[j].next_line = None \/ asked[j].next_line = <<"">>)
              => asked[j].result = <<TRUE, TRUE>>

\* a finished pass that emitted an uncertain paragraph, an empty one, and a
\* paragraph whose marked final line was followed by a blank line
C17_Witness ==
    /\ PassDone
    /\ \E k \in 1..Len(out) : out[k].uncertain
    /\ \E k \in 1..Len(out) : out[k].text = ""
    /\ \E k \in 1..Len(out) :
          /\ outLines[k] # <<>>
          /\ AnyMark(Trimmed[FinalLine(k)])
          /\ FinalLine(k) < Len(lines)
          /\ IsBlank(FinalLine(k) + 1)
          /\ ~out[k].uncertain

(***************************************************************************)
(* C18.  On a Joiner whose two Metrics are both still empty (count = 0, so *)
(* both averages and last_threshold are 0) every non-blank line that ends  *)
(* with one of the marks and is followed by a non-blank line closes its    *)
(* paragraph with uncertain = true, whatever its length.  More generally,  *)
(* in the non-informative branch a line ending with a mark closes its      *)
(* paragraph and is certain only if len(line) < 2 * first.avg - middle.avg *)
(* (the code makes it certain exactly then).                               *)
(***************************************************************************)
TwiceFirstLessMiddle ==
    RSub(RMul(RInt(2), Metric_avg(_first)), Metric_avg(_middle))

C18_UninformativeMarks ==
    /\ [][(/\ Classifying
           /\ _first.count = 0 /\ _middle.count = 0
           /\ AnyMark(Trimmed[pos]))
          => /\ Metric_avg(_first) = RInt(0) /\ Metric_avg(_middle) = RInt(0)
             /\ REq(ClaimLastThreshold, RInt(0))
             /\ Len(asked') = Len(asked) + 1
             /\ LastAsked.line = Trimmed[pos]
             /\ LastAsked.result = <<TRUE, FALSE>>
             /\ pc' = "yield143"
             /\ out'[Len(out')].uncertain]_vars
    /\ [][(/\ Classifying
           /\ ~GapExceedsDeviations
           /\ AnyMark(Trimmed[pos]))
          => /\ Len(asked') = Len(asked) + 1
             /\ LastAsked.line = Trimmed[pos]
             /\ LastAsked.result[1]
             /\ LastAsked.result[2]
                   <=> RLt(RInt(Len(Trimmed[pos])), TwiceFirstLessMiddle)
             /\ pc' = "yield143"
             /\ out'[Len(out')].uncertain = ~LastAsked.result[2]]_vars

\* a first pass on a new Joiner: its first line, with a mark and before a line
\* of text, was closed uncertain while both Metrics were empty; later, with a
\* first-line average and no middle lines, a marked line was closed certain
C18_Witness ==
    /\ PassDone
    /\ passSnap = <<Metric_init, Metric_init>>
    /\ _first.count > 0 /\ _middle.count = 0
    /\ Len(asked) >= 2
    /\ asked[1].next_line # None /\ asked[1].next_line[1] # ""
    /\ AnyMark(asked[1].line)
    /\ asked[1].result = <<TRUE, FALSE>>
    /\ out[1].uncertain
    /\ \E j \in 2..Len(asked) :
          /\ asked[j].next_line # None /\ asked[j].next_line[1] # ""
          /\ AnyMark(asked[j].line)
          /\ asked[j].result = <<TRUE, TRUE>>

(***************************************************************************)
(* The command-line run (command.py 58-72): Joiner(lines),                 *)
(* joiner.iterate(args.iterations - 1), paragraphs = list(joiner), then    *)
(* the paragraphs are written out.                                         *)
(***************************************************************************)
\* --iterations has type int: any integer is accepted
IterationValues == (0 - MaxBelowZero)..MaxPasses

\* read().decode().split(os.linesep) always gives at least one line
RunInputs == {input \in Inputs : Len(input) >= 1}

\* the lines written for the paragraphs: the text, then a marker if uncertain
RECURSIVE WriteOutput(_)
WriteOutput(ps) ==
    IF ps = <<>> THEN <<>>
    ELSE (IF Head(ps).uncertain THEN <<Head(ps).text, "### UNCERTAIN ###">>
                                ELSE <<Head(ps).text>>)
         \o WriteOutput(Tail(ps))

RunInit ==
    /\ \E input \in RunInputs : JoinerInit(input)
    /\ MetricIdle
    /\ ParagraphIdle
    /\ iterations \in IterationValues
    /\ rpc = "start"
    /\ written = <<>>

\* joiner.iterate(args.iterations - 1)
RunIterate ==
    /\ rpc = "start"
    /\ Iterate(iterations - 1)
    /\ rpc' = "iterating"
    /\ UNCHANGED <<iterations, written, mvars, pvars>>

\* list(joiner) begins once iterate has returned
RunList ==
    /\ rpc = "iterating"
    /\ Iter
    /\ rpc' = "listing"
    /\ UNCHANGED <<iterations, written, mvars, pvars>>

\* list(joiner) has exhausted the generator; the paragraphs are written
RunWrite ==
    /\ rpc = "listing"
    /\ IterReturn
    /\ written' = WriteOutput(out)
    /\ rpc' = "written"
    /\ UNCHANGED <<iterations, mvars, pvars>>

RunNext ==
    \/ RunIterate
    \/ RunList
    \/ RunWrite
    \/ IterateNext /\ UNCHANGED <<mvars, pvars, rvars>>
    \/ GenStart /\ UNCHANGED <<mvars, pvars, rvars>>
    \/ LoopBody /\ UNCHANGED <<mvars, pvars, rvars>>
    \/ Resume130 /\ UNCHANGED <<mvars, pvars, rvars>>
    \/ Resume132 /\ UNCHANGED <<mvars, pvars, rvars>>
    \/ Resume143 /\ UNCHANGED <<mvars, pvars, rvars>>

RunSpec == RunInit /\ [][RunNext]_vars

(***************************************************************************)
(* C19.  For every integer N given to --iterations the command-line run    *)
(* performs N passes over the input in all: the N - 1 warm-up passes of    *)
(* iterate(N - 1), whose paragraphs are discarded, and then exactly one    *)
(* final pass, whose paragraphs are written to the output.  The code runs  *)
(* one pass, not N, when N is zero or negative.                            *)
(***************************************************************************)
C19_IterationsPasses ==
    rpc = "written" =>
        /\ Len(log) = iterations
        /\ \A i \in 1..(Len(log) - 1) : log[i] = "iterate"
        /\ log[Len(log)] = "iter"
        /\ written = WriteOutput(out)

\* what the run does for every N: max(N, 1) passes, the last one written
RunPasses ==
    rpc = "written" =>
        /\ Len(log) = IF iterations >= 1 THEN iterations ELSE 1
        /\ \A i \in 1..(Len(log) - 1) : log[i] = "iterate"
        /\ log[Len(log)] = "iter"
        /\ written = WriteOutput(out)

====
